---- MODULE Spec2Model ----
(***************************************************************************)
(* Celeste CLI remote controller (flipper/celeste_cli/celeste_cli.c):      *)
(* the menu state machine driven by input_callback, the application loop   *)
(* of celeste_cli_app, the command catalog and the USB HID text emitter.   *)
(*                                                                         *)
(* The input callback and the application loop are two sequential          *)
(* activities that share the CelesteApp instance.  A step of either is the *)
(* code between two blocking calls: one whole invocation of the callback,  *)
(* one whole iteration of the loop.  The only callback invocation that     *)
(* blocks is Ok at the Confirm screen, which is cut at the call of         *)
(* send_command and at the return from the post-send delay.                *)
(***************************************************************************)
EXTENDS Integers, Sequences, FiniteSets, TLC

\* ---------------------------------------------------------------- bounds
\* Longest text handed to send_command when it is exercised on its own.
MaxLen == 2
\* Largest selected_item handed to input_callback when it is exercised on
\* an arbitrary CelesteApp.
MaxSelected == 5
\* Last loop iteration of the splash screen at which the user still gives
\* input; a user who has not reacted by then waits for the automatic advance.
MaxSplashInput == 2

\* ------------------------------------------------------------- constants
NULL == "NULL"

\* enum AppState
AppStateSplash == "Splash"
AppStateMainMenu == "MainMenu"
AppStateTarotMenu == "TarotMenu"
AppStateContentMenu == "ContentMenu"
AppStateNSFWMenu == "NSFWMenu"
AppStateConfirm == "Confirm"
AppStateExecuting == "Executing"
AppStateCustomInput == "CustomInput"

AppStates ==
    {AppStateSplash, AppStateMainMenu, AppStateTarotMenu, AppStateContentMenu,
     AppStateNSFWMenu, AppStateConfirm, AppStateExecuting, AppStateCustomInput}

\* enum MenuCategory
MenuCategoryMain == "Main"
MenuCategoryTarot == "Tarot"
MenuCategoryContent == "Content"
MenuCategoryNSFW == "NSFW"

MenuCategories ==
    {MenuCategoryMain, MenuCategoryTarot, MenuCategoryContent, MenuCategoryNSFW}

\* Input keys and input event types delivered to input_callback.
InputKeyUp == "Up"
InputKeyDown == "Down"
InputKeyOk == "Ok"
InputKeyBack == "Back"
InputKeyLeft == "Left"
InputKeyRight == "Right"

InputKeys ==
    {InputKeyUp, InputKeyDown, InputKeyOk, InputKeyBack, InputKeyLeft, InputKeyRight}

InputTypePress == "Press"
InputTypeRelease == "Release"
InputTypeShort == "Short"
InputTypeLong == "Long"
InputTypeRepeat == "Repeat"

InputTypes ==
    {InputTypePress, InputTypeRelease, InputTypeShort, InputTypeLong, InputTypeRepeat}

\* uint8_t arithmetic of selected_item and of the catalog walks.
Uint8 == 256

\* Entries of the main menu (render_main_menu) and the last index Down allows.
MainMenuLast == 3

\* Loop iterations spent on the splash screen before the auto-advance.
SplashTicks == 300

\* Connection polls of send_command before it gives up.
MaxPolls == 500

\* Delays, in milliseconds.
PollDelay == 10
SettleDelay == 500
KeyHoldDelay == 20
KeyGapDelay == 10
ReturnDelay == 100

\* HID keyboard usage ids used by send_char and send_key.
HID_KEYBOARD_A == 4
HID_KEYBOARD_1 == 30
HID_KEYBOARD_0 == 39
HID_KEYBOARD_RETURN == 40
HID_KEYBOARD_SPACEBAR == 44
HID_KEYBOARD_MINUS == 45
HID_KEYBOARD_APOSTROPHE == 52
HID_KEYBOARD_LEFT_SHIFT == 225

\* ASCII codes of the characters send_char compares against.
Ch_a == 97
Ch_z == 122
Ch_A == 65
Ch_Z == 90
Ch_0 == 48
Ch_1 == 49
Ch_9 == 57
Ch_space == 32
Ch_newline == 10
Ch_minus == 45
Ch_quote == 34

\* --------------------------------------------------------------- catalog
\* commands[0].command = "celestecli --tarot\n"
Command1 ==
    <<99,101,108,101,115,116,101,99,108,105,32,45,45,116,97,114,111,116,10>>

\* commands[1].command = "celestecli --tarot --spread celtic\n"
Command2 ==
    <<99,101,108,101,115,116,101,99,108,105,32,45,45,116,97,114,111,116,32,45,45,115,112,114,101,97,100,32,99,101,108,116,105,99,10>>

\* commands[2].command = "celestecli --divine\n"
Command3 ==
    <<99,101,108,101,115,116,101,99,108,105,32,45,45,100,105,118,105,110,101,10>>

\* commands[3].command = "celestecli --divine-nsfw\n"
Command4 ==
    <<99,101,108,101,115,116,101,99,108,105,32,45,45,100,105,118,105,110,101,45,110,115,102,119,10>>

\* commands[4].command = "celestecli --tarot --parsed\n"
Command5 ==
    <<99,101,108,101,115,116,101,99,108,105,32,45,45,116,97,114,111,116,32,45,45,112,97,114,115,101,100,10>>

\* commands[5].command = "celestecli --format short --platform twitter --topic \"NIKKE\" --tone \"lewd\"\n"
Command6 ==
    <<99,101,108,101,115,116,101,99,108,105,32,45,45,102,111,114,109,97,116,32,115,104,111,114,116,32,45,45,112,108,97,116,102,111,114,109,32,116,119,105,116,116,101,114,32,45,45,116,111,112,105,99,32,34,78,73,75,75,69,34,32,45,45,116,111,110,101,32,34,108,101,119,100,34,10>>

\* commands[6].command = "celestecli --format short --platform twitter --topic \"NIKKE\" --tone \"teasing\"\n"
Command7 ==
    <<99,101,108,101,115,116,101,99,108,105,32,45,45,102,111,114,109,97,116,32,115,104,111,114,116,32,45,45,112,108,97,116,102,111,114,109,32,116,119,105,116,116,101,114,32,45,45,116,111,112,105,99,32,34,78,73,75,75,69,34,32,45,45,116,111,110,101,32,34,116,101,97,115,105,110,103,34,10>>

\* commands[7].command = "celestecli --format short --platform twitter --topic \"NIKKE\" --tone \"chaotic\"\n"
Command8 ==
    <<99,101,108,101,115,116,101,99,108,105,32,45,45,102,111,114,109,97,116,32,115,104,111,114,116,32,45,45,112,108,97,116,102,111,114,109,32,116,119,105,116,116,101,114,32,45,45,116,111,112,105,99,32,34,78,73,75,75,69,34,32,45,45,116,111,110,101,32,34,99,104,97,111,116,105,99,34,10>>

\* commands[8].command = "celestecli --format long --platform youtube --topic \"Streaming\" --request \"include links to website, socials, products\"\n"
Command9 ==
    <<99,101,108,101,115,116,101,99,108,105,32,45,45,102,111,114,109,97,116,32,108,111,110,103,32,45,45,112,108,97,116,102,111,114,109,32,121,111,117,116,117,98,101,32,45,45,116,111,112,105,99,32,34,83,116,114,101,97,109,105,110,103,34,32,45,45,114,101,113,117,101,115,116,32,34,105,110,99,108,117,100,101,32,108,105,110,107,115,32,116,111,32,119,101,98,115,105,116,101,44,32,115,111,99,105,97,108,115,44,32,112,114,111,100,117,99,116,115,34,10>>

\* commands[9].command = "celestecli --nsfw --format short --platform twitter --topic \"NIKKE\" --tone \"explicit\"\n"
Command10 ==
    <<99,101,108,101,115,116,101,99,108,105,32,45,45,110,115,102,119,32,45,45,102,111,114,109,97,116,32,115,104,111,114,116,32,45,45,112,108,97,116,102,111,114,109,32,116,119,105,116,116,101,114,32,45,45,116,111,112,105,99,32,34,78,73,75,75,69,34,32,45,45,116,111,110,101,32,34,101,120,112,108,105,99,105,116,34,10>>

\* commands[10].command = "celestecli --nsfw --image --request \"generate NSFW image of Celeste\"\n"
Command11 ==
    <<99,101,108,101,115,116,101,99,108,105,32,45,45,110,115,102,119,32,45,45,105,109,97,103,101,32,45,45,114,101,113,117,101,115,116,32,34,103,101,110,101,114,97,116,101,32,78,83,70,87,32,105,109,97,103,101,32,111,102,32,67,101,108,101,115,116,101,34,10>>

\* commands[11].command = "celestecli --nsfw --list-models\n"
Command12 ==
    <<99,101,108,101,115,116,101,99,108,105,32,45,45,110,115,102,119,32,45,45,108,105,115,116,45,109,111,100,101,108,115,10>>

\* The command templates, in declaration order, closed by the end marker.
commands ==
    <<
       [name |-> "3-Card Tarot", command |-> Command1, category |-> MenuCategoryTarot],
       [name |-> "Celtic Cross", command |-> Command2, category |-> MenuCategoryTarot],
       [name |-> "Divine Reading", command |-> Command3, category |-> MenuCategoryTarot],
       [name |-> "Divine NSFW", command |-> Command4, category |-> MenuCategoryTarot],
       [name |-> "Tarot Parsed", command |-> Command5, category |-> MenuCategoryTarot],
       [name |-> "Twitter Short", command |-> Command6, category |-> MenuCategoryContent],
       [name |-> "Twitter Teasing", command |-> Command7, category |-> MenuCategoryContent],
       [name |-> "Twitter Chaotic", command |-> Command8, category |-> MenuCategoryContent],
       [name |-> "YouTube Desc", command |-> Command9, category |-> MenuCategoryContent],
       [name |-> "NSFW Text", command |-> Command10, category |-> MenuCategoryNSFW],
       [name |-> "NSFW Image", command |-> Command11, category |-> MenuCategoryNSFW],
       [name |-> "List Models", command |-> Command12, category |-> MenuCategoryNSFW],
       [name |-> NULL, command |-> <<>>, category |-> MenuCategoryMain]
    >>

\* A CelesteCommand pointer is the position of the entry in commands
\* (1 for commands[0]); NullCmd is the NULL pointer.
NullCmd == 0

\* The loop of count_menu_items from index i on, count matches so far.
RECURSIVE count_menu_items_from(_, _, _)
count_menu_items_from(category, i, count) ==
    IF commands[i + 1].name = NULL
    THEN count
    ELSE count_menu_items_from(
             category, (i + 1) % Uint8,
             IF commands[i + 1].category = category
             THEN (count + 1) % Uint8
             ELSE count)

count_menu_items(category) == count_menu_items_from(category, 0, 0)

\* get_menu_item_from counting every entry, not only those of the category.
RECURSIVE get_menu_item_from_counts_all(_, _, _, _)
get_menu_item_from_counts_all(category, index, i, count) ==
    IF commands[i + 1].name = NULL
    THEN NullCmd
    ELSE IF commands[i + 1].category = category /\ count = index
         THEN i + 1
         ELSE get_menu_item_from_counts_all(category, index, (i + 1) % Uint8,
                                            (count + 1) % Uint8)

\* The loop of get_menu_item from index i on, count matches so far.
RECURSIVE get_menu_item_from(_, _, _, _)
get_menu_item_from(category, index, i, count) ==
    IF commands[i + 1].name = NULL
    THEN NullCmd
    ELSE IF commands[i + 1].category = category
         THEN IF count = index
              THEN i + 1
              ELSE get_menu_item_from(category, index, (i + 1) % Uint8,
                                      (count + 1) % Uint8)
         ELSE get_menu_item_from(category, index, (i + 1) % Uint8, count)

get_menu_item(category, index) == get_menu_item_from(category, index, 0, 0)

\* ------------------------------------------------------ HID text emitter
\* What the emitter does to the outside world, in order:
\*   <<"set_config">>   furi_hal_usb_set_config(&usb_hid, NULL)
\*   <<"poll", n>>      the connection wait loop ran n delays of PollDelay
\*   <<"press", k>>     furi_hal_hid_kb_press(k)
\*   <<"release", k>>   furi_hal_hid_kb_release(k)
\*   <<"delay", ms>>    furi_delay_ms(ms) outside the wait loop
EvSetConfig == <<"set_config">>
EvPoll(n) == <<"poll", n>>
EvPress(k) == <<"press", k>>
EvRelease(k) == <<"release", k>>
EvDelay(ms) == <<"delay", ms>>

\* send_key that presses shift after the key.
send_key_shift_late(key, shift) ==
    <<EvPress(key)>>
    \o (IF shift THEN <<EvPress(HID_KEYBOARD_LEFT_SHIFT)>> ELSE <<>>)
    \o <<EvDelay(KeyHoldDelay), EvRelease(key)>>
    \o (IF shift THEN <<EvRelease(HID_KEYBOARD_LEFT_SHIFT)>> ELSE <<>>)
    \o <<EvDelay(KeyGapDelay)>>

send_key(key, shift) ==
    (IF shift THEN <<EvPress(HID_KEYBOARD_LEFT_SHIFT)>> ELSE <<>>)
    \o <<EvPress(key), EvDelay(KeyHoldDelay), EvRelease(key)>>
    \o (IF shift THEN <<EvRelease(HID_KEYBOARD_LEFT_SHIFT)>> ELSE <<>>)
    \o <<EvDelay(KeyGapDelay)>>

\* send_char that takes '0' with the other digits, counting from '1'.
send_char_zero_in_range(c) ==
    IF c >= Ch_a /\ c <= Ch_z THEN send_key(HID_KEYBOARD_A + (c - Ch_a), FALSE)
    ELSE IF c >= Ch_A /\ c <= Ch_Z THEN send_key(HID_KEYBOARD_A + (c - Ch_A), TRUE)
    ELSE IF c = Ch_space THEN send_key(HID_KEYBOARD_SPACEBAR, FALSE)
    ELSE IF c = Ch_newline
         THEN send_key(HID_KEYBOARD_RETURN, FALSE) \o <<EvDelay(ReturnDelay)>>
    ELSE IF c = Ch_minus THEN send_key(HID_KEYBOARD_MINUS, FALSE)
    ELSE IF c = Ch_quote THEN send_key(HID_KEYBOARD_APOSTROPHE, TRUE)
    ELSE IF c >= Ch_0 /\ c <= Ch_9 THEN send_key(HID_KEYBOARD_1 + (c - Ch_1), FALSE)
    ELSE <<>>

send_char(c) ==
    IF c >= Ch_a /\ c <= Ch_z THEN send_key(HID_KEYBOARD_A + (c - Ch_a), FALSE)
    ELSE IF c >= Ch_A /\ c <= Ch_Z THEN send_key(HID_KEYBOARD_A + (c - Ch_A), TRUE)
    ELSE IF c = Ch_space THEN send_key(HID_KEYBOARD_SPACEBAR, FALSE)
    ELSE IF c = Ch_newline
         THEN send_key(HID_KEYBOARD_RETURN, FALSE) \o <<EvDelay(ReturnDelay)>>
    ELSE IF c = Ch_minus THEN send_key(HID_KEYBOARD_MINUS, FALSE)
    ELSE IF c = Ch_quote THEN send_key(HID_KEYBOARD_APOSTROPHE, TRUE)
    ELSE IF c = Ch_0 THEN send_key(HID_KEYBOARD_0, FALSE)
    ELSE IF c >= Ch_1 /\ c <= Ch_9 THEN send_key(HID_KEYBOARD_1 + (c - Ch_1), FALSE)
    ELSE <<>>

\* The host-connected signal as send_command samples it.  The calls of
\* furi_hal_usb_is_connected() within one send_command are numbered 0, 1, ...
\* and a signal [up, down] answers true to the calls up .. down-1.
NoEdge == MaxPolls + 2
is_connected(sig, call) == sig.up <= call /\ call < sig.down

\* The wait loop of send_command,
\*     while(!furi_hal_usb_is_connected() && timeout < 500) { delay; timeout++; }
\* started with timeout = 0: call number t of furi_hal_usb_is_connected() is
\* made with timeout = t, and the loop leaves with the first timeout at which
\* its condition is false.
wait_continues(sig, timeout) == ~is_connected(sig, timeout) /\ timeout < MaxPolls

wait_for_usb(sig) ==
    LET exits == {t \in 0 .. MaxPolls : ~wait_continues(sig, t)}
    IN  CHOOSE t \in exits : \A u \in exits : t <= u

\* The events of send_char for the characters lo..hi of command, in order.
\* The range is split in halves so that the evaluation stays shallow; the
\* result is the concatenation in index order, as the loop produces it.
RECURSIVE type_chars(_, _, _)
type_chars(command, lo, hi) ==
    IF lo > hi THEN <<>>
    ELSE IF lo = hi THEN send_char(command[lo])
    ELSE LET mid == (lo + hi) \div 2
         IN  type_chars(command, lo, mid) \o type_chars(command, mid + 1, hi)

\* The typing loop of send_command from character i on (1-based).
type_command(command, i) == type_chars(command, i, Len(command))

\* send_command without the connection check after the wait loop.
send_command_unchecked(command, sig) ==
    LET timeout == wait_for_usb(sig)
        waited == <<EvSetConfig, EvPoll(timeout)>>
    IN  waited \o <<EvDelay(SettleDelay)>> \o type_command(command, 1)
               \o <<EvSetConfig>>

send_command(command, sig) ==
    LET timeout == wait_for_usb(sig)
        waited == <<EvSetConfig, EvPoll(timeout)>>
    IN  IF ~is_connected(sig, timeout + 1)
        THEN waited
        ELSE waited \o <<EvDelay(SettleDelay)>> \o type_command(command, 1)
                    \o <<EvSetConfig>>

\* ---------------------------------------------------- menu state machine
VARIABLES
    app,        \* the CelesteApp instance
    pc,         \* where the input callback is: "idle" (not running),
                \* "send" (in send_command), "delay" (in the post-send delay)
    command,    \* the argument of the send_command call in progress
    hid,        \* what the latest callback invocation did to the HID device
    usb,        \* the host-connected signal its send_command sampled
    canvas,     \* what the latest render_callback left on the display
    loop,       \* the application loop: "running", or "done" after teardown
    last        \* the step just taken: [op, key, type]

vars == <<app, pc, command, hid, usb, canvas, loop, last>>

IsSubmenu(state) ==
    state = AppStateTarotMenu \/ state = AppStateContentMenu
        \/ state = AppStateNSFWMenu

\* ------------------------------------------------------------- rendering
\* What a draw routine leaves on the canvas: the title line, the other text
\* lines, the command preview, the menu rows from top to bottom (a row is the
\* index of its entry, its text and whether the ">" marker is drawn) and the
\* footer line.
Canvas(title, body, preview, rows, footer) ==
    [title |-> title, body |-> body, preview |-> preview, rows |-> rows,
     footer |-> footer]

\* The display before the first render_callback.
BlankCanvas == Canvas("", <<>>, <<>>, <<>>, "")

Row(i, text, a) == [index |-> i, text |-> text, marked |-> (i = a.selected_item)]

render_splash(a) ==
    Canvas("CELESTE CLI", <<"Remote Controller", "C">>, <<>>, <<>>,
           "Press OK to start")

\* menu_items of render_main_menu
menu_items == <<"Tarot Readings", "Content Gen", "NSFW Mode", "Settings">>

render_main_menu(a) ==
    Canvas("CELESTE CLI", <<>>, <<>>,
           [k \in 1 .. 4 |-> Row(k - 1, menu_items[k], a)],
           "OK=Select  Back=Exit")

\* headers of render_submenu; the slot of MenuCategoryMain has no initializer.
headers(category) ==
    CASE category = MenuCategoryTarot -> "TAROT READINGS"
      [] category = MenuCategoryContent -> "CONTENT GEN"
      [] category = MenuCategoryNSFW -> "NSFW MODE"
      [] OTHER -> NULL

\* visible_start_of without the + 1.
visible_start_of_short(selected_item, visible_count) ==
    IF selected_item >= visible_count
    THEN (selected_item - visible_count) % Uint8
    ELSE 0

\* The first row render_submenu draws.
visible_start_of(selected_item, visible_count) ==
    IF selected_item >= visible_count
    THEN (selected_item - visible_count + 1) % Uint8
    ELSE 0

\* The row loop of render_submenu from index i on.
RECURSIVE submenu_rows(_, _, _, _, _)
submenu_rows(a, item_count, visible_start, visible_count, i) ==
    IF i < item_count /\ (i - visible_start) < visible_count
    THEN LET cmd == get_menu_item(a.current_category, i)
         IN  (IF cmd # NullCmd THEN <<Row(i, commands[cmd].name, a)>> ELSE <<>>)
             \o submenu_rows(a, item_count, visible_start, visible_count,
                             (i + 1) % Uint8)
    ELSE <<>>

render_submenu(a) ==
    LET item_count == count_menu_items(a.current_category)
        visible_count == 4
        visible_start == visible_start_of(a.selected_item, visible_count)
    IN  Canvas(headers(a.current_category), <<>>, <<>>,
               submenu_rows(a, item_count, visible_start, visible_count,
                            visible_start),
               "OK=Send  Back=Menu")

render_confirm(a) ==
    IF a.current_command # NullCmd
    THEN LET text == commands[a.current_command].command
             n == IF Len(text) < 30 THEN Len(text) ELSE 30
         IN  Canvas("SEND COMMAND?", <<commands[a.current_command].name>>,
                    SubSeq(text, 1, n), <<>>, "OK=Send  Back=Cancel")
    ELSE Canvas("SEND COMMAND?", <<>>, <<>>, <<>>, "OK=Send  Back=Cancel")

render_executing(a) ==
    Canvas("SENDING...", <<"Check host terminal">>, <<>>, <<>>, "")

\* render_callback on a display that shows c: the default case draws nothing.
render_callback(c, a) ==
    CASE a.state = AppStateSplash -> render_splash(a)
      [] a.state = AppStateMainMenu -> render_main_menu(a)
      [] IsSubmenu(a.state) -> render_submenu(a)
      [] a.state = AppStateConfirm -> render_confirm(a)
      [] a.state = AppStateExecuting -> render_executing(a)
      [] OTHER -> c

\* press_up with a cursor that wraps from the first entry to the last.
press_up_wraps(a) ==
    IF a.state = AppStateMainMenu
    THEN IF a.selected_item > 0
         THEN [a EXCEPT !.selected_item = (a.selected_item - 1) % Uint8]
         ELSE [a EXCEPT !.selected_item = MainMenuLast]
    ELSE IF IsSubmenu(a.state)
         THEN IF a.selected_item > 0
              THEN [a EXCEPT !.selected_item = (a.selected_item - 1) % Uint8]
              ELSE [a EXCEPT !.selected_item =
                                (count_menu_items(a.current_category) - 1) % Uint8]
         ELSE a

\* case InputKeyUp
press_up(a) ==
    IF a.state = AppStateMainMenu
    THEN IF a.selected_item > 0
         THEN [a EXCEPT !.selected_item = (a.selected_item - 1) % Uint8]
         ELSE a
    ELSE IF IsSubmenu(a.state)
         THEN IF a.selected_item > 0
              THEN [a EXCEPT !.selected_item = (a.selected_item - 1) % Uint8]
              ELSE a
         ELSE a

\* press_down with the submenu bound off by one (selected_item < item_count).
press_down_past_end(a) ==
    IF a.state = AppStateMainMenu
    THEN IF a.selected_item < MainMenuLast
         THEN [a EXCEPT !.selected_item = (a.selected_item + 1) % Uint8]
         ELSE a
    ELSE IF IsSubmenu(a.state)
         THEN LET item_count == count_menu_items(a.current_category)
              IN  IF a.selected_item < item_count
                  THEN [a EXCEPT !.selected_item = (a.selected_item + 1) % Uint8]
                  ELSE a
         ELSE a

\* case InputKeyDown
press_down(a) ==
    IF a.state = AppStateMainMenu
    THEN IF a.selected_item < MainMenuLast
         THEN [a EXCEPT !.selected_item = (a.selected_item + 1) % Uint8]
         ELSE a
    ELSE IF IsSubmenu(a.state)
         THEN LET item_count == count_menu_items(a.current_category)
              IN  IF a.selected_item < item_count - 1
                  THEN [a EXCEPT !.selected_item = (a.selected_item + 1) % Uint8]
                  ELSE a
         ELSE a

\* ok_main_menu without the reset of selected_item.
ok_main_menu_keeps_selection(a) ==
    CASE a.selected_item = 0 ->
           [a EXCEPT !.state = AppStateTarotMenu,
                     !.current_category = MenuCategoryTarot]
      [] a.selected_item = 1 ->
           [a EXCEPT !.state = AppStateContentMenu,
                     !.current_category = MenuCategoryContent]
      [] a.selected_item = 2 ->
           [a EXCEPT !.state = AppStateNSFWMenu,
                     !.current_category = MenuCategoryNSFW]
      [] OTHER -> a

\* case InputKeyOk at the main menu: the switch on selected_item
ok_main_menu(a) ==
    CASE a.selected_item = 0 ->
           [a EXCEPT !.state = AppStateTarotMenu,
                     !.current_category = MenuCategoryTarot,
                     !.selected_item = 0]
      [] a.selected_item = 1 ->
           [a EXCEPT !.state = AppStateContentMenu,
                     !.current_category = MenuCategoryContent,
                     !.selected_item = 0]
      [] a.selected_item = 2 ->
           [a EXCEPT !.state = AppStateNSFWMenu,
                     !.current_category = MenuCategoryNSFW,
                     !.selected_item = 0]
      [] OTHER -> a

\* ok_submenu that looks up the first entry of the category.
ok_submenu_first_entry(a) ==
    LET cmd == get_menu_item(a.current_category, 0)
    IN  IF cmd # NullCmd
        THEN [a EXCEPT !.current_command = cmd, !.state = AppStateConfirm]
        ELSE a

\* ok_submenu without the NULL check on the entry looked up.
ok_submenu_unchecked(a) ==
    LET cmd == get_menu_item(a.current_category, a.selected_item)
    IN  [a EXCEPT !.current_command = cmd, !.state = AppStateConfirm]

\* case InputKeyOk at a category submenu
ok_submenu(a) ==
    LET cmd == get_menu_item(a.current_category, a.selected_item)
    IN  IF cmd # NullCmd
        THEN [a EXCEPT !.current_command = cmd, !.state = AppStateConfirm]
        ELSE a

\* case InputKeyOk at the confirm screen, up to the call of send_command
ok_confirm(a) ==
    IF a.current_command # NullCmd
    THEN [a EXCEPT !.state = AppStateExecuting]
    ELSE a

\* ok_confirm_return without the return to the main menu.
ok_confirm_return_stays(a) ==
    [a EXCEPT !.selected_item = 0]

\* case InputKeyOk at the confirm screen, after the post-send delay
ok_confirm_return(a) ==
    [a EXCEPT !.state = AppStateMainMenu, !.selected_item = 0]

\* case InputKeyOk
press_ok(a) ==
    IF a.state = AppStateSplash
    THEN [a EXCEPT !.state = AppStateMainMenu, !.selected_item = 0]
    ELSE IF a.state = AppStateMainMenu THEN ok_main_menu(a)
    ELSE IF IsSubmenu(a.state) THEN ok_submenu(a)
    ELSE IF a.state = AppStateConfirm THEN ok_confirm(a)
    ELSE a

\* back_confirm without the category tests.
back_confirm_tarot_only(a) ==
    [a EXCEPT !.state = AppStateTarotMenu]

\* case InputKeyBack at the confirm screen
back_confirm(a) ==
    IF a.current_category = MenuCategoryContent
    THEN [a EXCEPT !.state = AppStateContentMenu]
    ELSE IF a.current_category = MenuCategoryNSFW
         THEN [a EXCEPT !.state = AppStateNSFWMenu]
         ELSE [a EXCEPT !.state = AppStateTarotMenu]

\* back_submenu that puts the cursor back on the entry of the submenu left.
back_submenu_restores(a) ==
    [a EXCEPT !.state = AppStateMainMenu,
              !.selected_item = IF a.current_category = MenuCategoryContent THEN 1
                                ELSE IF a.current_category = MenuCategoryNSFW THEN 2
                                ELSE 0]

\* case InputKeyBack at a category submenu
back_submenu(a) ==
    [a EXCEPT !.state = AppStateMainMenu, !.selected_item = 0]

\* press_back that also ends the application from a category submenu.
press_back_exits_submenu(a) ==
    IF a.state = AppStateSplash THEN [a EXCEPT !.running = FALSE]
    ELSE IF a.state = AppStateMainMenu THEN [a EXCEPT !.running = FALSE]
    ELSE IF IsSubmenu(a.state)
         THEN [a EXCEPT !.state = AppStateMainMenu, !.selected_item = 0,
                        !.running = FALSE]
    ELSE IF a.state = AppStateConfirm THEN back_confirm(a)
    ELSE IF a.state = AppStateExecuting
         THEN [a EXCEPT !.state = AppStateMainMenu, !.selected_item = 0]
         ELSE a

\* case InputKeyBack
press_back(a) ==
    IF a.state = AppStateSplash THEN [a EXCEPT !.running = FALSE]
    ELSE IF a.state = AppStateMainMenu THEN [a EXCEPT !.running = FALSE]
    ELSE IF IsSubmenu(a.state) THEN back_submenu(a)
    ELSE IF a.state = AppStateConfirm THEN back_confirm(a)
    ELSE IF a.state = AppStateExecuting
         THEN [a EXCEPT !.state = AppStateMainMenu, !.selected_item = 0]
         ELSE a

\* input_callback without the test of the event type.
input_callback_any_type(a, input_event) ==
    CASE input_event.key = InputKeyUp -> press_up(a)
      [] input_event.key = InputKeyDown -> press_down(a)
      [] input_event.key = InputKeyOk -> press_ok(a)
      [] input_event.key = InputKeyBack -> press_back(a)
      [] OTHER -> a

\* input_callback up to its return or, for Ok at the confirm screen with a
\* command staged, up to the call of send_command.
input_callback(a, input_event) ==
    IF input_event.type = InputTypePress
    THEN CASE input_event.key = InputKeyUp -> press_up(a)
           [] input_event.key = InputKeyDown -> press_down(a)
           [] input_event.key = InputKeyOk -> press_ok(a)
           [] input_event.key = InputKeyBack -> press_back(a)
           [] OTHER -> a
    ELSE a

\* The invocation reaches the call send_command(app->current_command->command).
calls_send_command(a, input_event) ==
    /\ input_event.type = InputTypePress
    /\ input_event.key = InputKeyOk
    /\ a.state = AppStateConfirm
    /\ a.current_command # NullCmd

\* loop_iteration without the test of the splash screen.
loop_iteration_unguarded(a) ==
    LET t == a.splash_timer + 1
    IN  IF t >= SplashTicks
        THEN [a EXCEPT !.splash_timer = SplashTicks,
                       !.state = AppStateMainMenu,
                       !.selected_item = 0]
        ELSE [a EXCEPT !.splash_timer = t]

\* loop_iteration that ends the application when it leaves the splash screen.
loop_iteration_stops(a) ==
    IF a.state = AppStateSplash
    THEN LET t == a.splash_timer + 1
         IN  IF t >= SplashTicks
             THEN [a EXCEPT !.splash_timer = t,
                            !.state = AppStateMainMenu,
                            !.selected_item = 0,
                            !.running = FALSE]
             ELSE [a EXCEPT !.splash_timer = t]
    ELSE a

\* One iteration of the main loop of celeste_cli_app.
loop_iteration(a) ==
    IF a.state = AppStateSplash
    THEN LET t == a.splash_timer + 1
         IN  IF t >= SplashTicks
             THEN [a EXCEPT !.splash_timer = t,
                            !.state = AppStateMainMenu,
                            !.selected_item = 0]
             ELSE [a EXCEPT !.splash_timer = t]
    ELSE a

\* The CelesteApp that celeste_cli_app constructs.
InitialApp ==
    [state |-> AppStateSplash,
     selected_item |-> 0,
     current_category |-> MenuCategoryMain,
     current_command |-> NullCmd,
     splash_timer |-> 0,
     running |-> TRUE]

\* ------------------------------------------------------------ environment
\* Input events the platform can deliver.
InputEvents == [key : InputKeys, type : InputTypes]

\* The events delivered while the application runs from startup: the press
\* and the release of each key.
PressReleaseEvents == [key : InputKeys, type : {InputTypePress, InputTypeRelease}]

\* Shapes of the host-connected signal during one send_command: connected
\* from the start, from a later call on, never, or lost again after the
\* wait loop saw it.
Signals ==
    {[up |-> u, down |-> NoEdge] :
        u \in {0, 1, MaxPolls - 1, MaxPolls, MaxPolls + 1, NoEdge}}
        \cup {[up |-> 0, down |-> 1]}

\* Characters of a command text (a char of a C string, the terminator
\* excluded), and the ones on the edges of the ranges send_char tests.
Chars == 1 .. 127
EdgeChars ==
    {Ch_a, Ch_z, Ch_A, Ch_Z, Ch_0, Ch_1, Ch_9, Ch_space, Ch_newline, Ch_minus,
     Ch_quote, Ch_a - 1, Ch_z + 1, Ch_A - 1, Ch_Z + 1, Ch_0 - 1, Ch_9 + 1, 44}

\* "Ab1 -\"\n"
ExampleText == <<65, 98, 49, 32, 45, 34, 10>>

RECURSIVE SeqsUpTo(_, _)
SeqsUpTo(S, n) ==
    IF n = 0
    THEN {<<>>}
    ELSE LET shorter == SeqsUpTo(S, n - 1)
         IN  shorter \cup {Append(s, c) : s \in shorter, c \in S}

\* The texts send_command is exercised on when it is taken on its own.
Texts ==
    {<<c>> : c \in Chars} \cup SeqsUpTo(EdgeChars, MaxLen) \cup {ExampleText}

\* The CelesteApp instances input_callback is exercised on when it is taken
\* on its own.
AnyApp ==
    [state : AppStates,
     selected_item : 0 .. MaxSelected,
     current_category : MenuCategories,
     current_command : 0 .. (Len(commands) - 1),
     splash_timer : {0},
     running : BOOLEAN]

\* No send_command has sampled the signal in this invocation.
NoSignal == [up |-> NoEdge, down |-> NoEdge]

NoStep == [op |-> "start", key |-> "none", type |-> "none"]
Step(op) == [op |-> op, key |-> "none", type |-> "none"]
InputStep(input_event) ==
    [op |-> "input", key |-> input_event.key, type |-> input_event.type]

\* ---------------------------------------------------------------- actions
Init ==
    /\ app = InitialApp
    /\ pc = "idle"
    /\ command = <<>>
    /\ hid = <<>>
    /\ usb = NoSignal
    /\ canvas = BlankCanvas
    /\ loop = "running"
    /\ last = NoStep

\* Deliver with input_callback entered while an earlier invocation is still
\* in send_command or in the post-send delay.
Deliver_reentrant(events) ==
    /\ loop = "running"
    /\ \E input_event \in events :
          /\ app' = input_callback(app, input_event)
          /\ IF calls_send_command(app, input_event)
             THEN /\ pc' = "send"
                  /\ command' = commands[app.current_command].command
             ELSE /\ pc' = "idle"
                  /\ command' = <<>>
          /\ last' = InputStep(input_event)
    /\ hid' = <<>>
    /\ usb' = NoSignal
    /\ UNCHANGED <<canvas, loop>>

\* The platform delivers an input event and input_callback handles it.  No
\* event is delivered while an earlier invocation has not returned, nor after
\* the view port was removed.
Deliver(events) ==
    /\ pc = "idle"
    /\ loop = "running"
    /\ \E input_event \in events :
          /\ app' = input_callback(app, input_event)
          /\ IF calls_send_command(app, input_event)
             THEN /\ pc' = "send"
                  /\ command' = commands[app.current_command].command
             ELSE /\ pc' = "idle"
                  /\ command' = <<>>
          /\ last' = InputStep(input_event)
    /\ hid' = <<>>
    /\ usb' = NoSignal
    /\ UNCHANGED <<canvas, loop>>

\* Input while the application runs from startup.  On the splash screen the
\* user reacts within the first MaxSplashInput loop iterations or waits for
\* the automatic advance.
Input ==
    /\ app.state = AppStateSplash => app.splash_timer <= MaxSplashInput
    /\ Deliver(PressReleaseEvents)

\* Input of any type, for input_callback taken on its own.
InputAny == Deliver(InputEvents)

\* send_command runs from its first line to its return.
SendCommand ==
    /\ pc = "send"
    /\ \E sig \in Signals :
          /\ usb' = sig
          /\ hid' = send_command(command, sig)
    /\ pc' = "delay"
    /\ last' = Step("send")
    /\ UNCHANGED <<app, command, canvas, loop>>

\* The post-send delay is over and input_callback returns.
SendReturn ==
    /\ pc = "delay"
    /\ app' = ok_confirm_return(app)
    /\ pc' = "idle"
    /\ command' = <<>>
    /\ last' = Step("return")
    /\ UNCHANGED <<hid, usb, canvas, loop>>

\* One iteration of the main loop.
Tick ==
    /\ loop = "running"
    /\ app.running
    /\ app' = loop_iteration(app)
    /\ last' = Step("tick")
    /\ UNCHANGED <<pc, command, hid, usb, canvas, loop>>

\* The loop sees running = false and tears the application down; removing
\* the view port waits for an input callback in progress.
Teardown ==
    /\ loop = "running"
    /\ ~app.running
    /\ pc = "idle"
    /\ loop' = "done"
    /\ last' = Step("teardown")
    /\ UNCHANGED <<app, pc, command, hid, usb, canvas>>

\* The display is redrawn: render_callback runs, between two invocations of
\* the input callback.
Render ==
    /\ loop = "running"
    /\ pc = "idle"
    /\ canvas' = render_callback(canvas, app)
    /\ last' = Step("render")
    /\ UNCHANGED <<app, pc, command, hid, usb, loop>>

\* The application from startup.
Next == Input \/ SendCommand \/ SendReturn \/ Tick \/ Teardown

Spec == Init /\ [][Next]_vars

\* Input while the application runs from startup with its display: the
\* presses of each key.
InputPress ==
    /\ app.state = AppStateSplash => app.splash_timer <= MaxSplashInput
    /\ Deliver([key : InputKeys, type : {InputTypePress}])

\* The application from startup, with its display.
NextRender ==
    InputPress \/ SendCommand \/ SendReturn \/ Tick \/ Teardown \/ Render

SpecRender == Init /\ [][NextRender]_vars

\* input_callback on an arbitrary CelesteApp.
InitHandler ==
    /\ app \in AnyApp
    /\ pc = "idle"
    /\ command = <<>>
    /\ hid = <<>>
    /\ usb = NoSignal
    /\ canvas = BlankCanvas
    /\ loop = "running"
    /\ last = NoStep

NextHandler == InputAny \/ SendCommand \/ SendReturn

SpecHandler == InitHandler /\ [][NextHandler]_vars

\* send_command on an arbitrary text.
InitSend ==
    /\ app = [InitialApp EXCEPT !.state = AppStateExecuting]
    /\ pc = "send"
    /\ command \in Texts
    /\ hid = <<>>
    /\ usb = NoSignal
    /\ canvas = BlankCanvas
    /\ loop = "running"
    /\ last = NoStep

NextSend == SendCommand

SpecSend == InitSend /\ [][NextSend]_vars

TypeOK ==
    /\ app.state \in AppStates
    /\ app.selected_item \in 0 .. (Uint8 - 1)
    /\ app.current_category \in MenuCategories
    /\ app.current_command \in 0 .. (Len(commands) - 1)
    /\ app.splash_timer \in 0 .. SplashTicks
    /\ app.running \in BOOLEAN
    /\ pc \in {"idle", "send", "delay"}
    /\ loop \in {"running", "done"}

\* The application from startup; a send_command that was called returns and a
\* post-send delay that was started ends (the wait loop is bounded by
\* MaxPolls, the typing loop by the length of the text).
FairSpec == Spec /\ WF_vars(SendCommand) /\ WF_vars(SendReturn)

\* The same, and the loop gets to its teardown: it tests running every
\* iteration and, once out of the loop, waits only for the input callback in
\* progress, which returns.
ExitSpec == FairSpec /\ SF_vars(Teardown)

\* ------------------------------------------------------------- properties
\* The step just taken handled a press of key.
Pressed(key) == last = InputStep([key |-> key, type |-> InputTypePress])

\* The step being taken handles a press of key.
PressOf(key) == last' = InputStep([key |-> key, type |-> InputTypePress])

\* The key events (press, release) of a HID record, and the keys pressed.
KeyEvents(h) == SelectSeq(h, LAMBDA e : e[1] = "press" \/ e[1] = "release")
KeysPressed(h) ==
    LET presses == SelectSeq(h, LAMBDA e : e[1] = "press")
    IN  [i \in 1 .. Len(presses) |-> presses[i][2]]
SetConfigs(h) == SelectSeq(h, LAMBDA e : e[1] = "set_config")

\* C1: in every state reachable from startup, selected_item is an index of
\* the active list: 0..3 at the main menu, 0..count_menu_items(category)-1
\* at a category submenu.
C1_SelectedInBounds ==
    /\ app.state = AppStateMainMenu => app.selected_item \in 0 .. 3
    /\ IsSubmenu(app.state) =>
          app.selected_item \in 0 .. (count_menu_items(app.current_category) - 1)

\* Down has moved the cursor to the last of the five tarot entries.
C1_Witness ==
    /\ Pressed(InputKeyDown)
    /\ app.state = AppStateTarotMenu
    /\ app.selected_item = 4

\* C2: Ok at the confirm screen with a command staged makes the screen
\* Executing and calls send_command with the staged command's text; the
\* invocation ends with the main menu and selection 0 whatever the host
\* connection did, and the screen does not stay Executing.
C2_ConfirmSendsAndReturns ==
    /\ [][ /\ (PressOf(InputKeyOk) /\ app.state = AppStateConfirm
                  /\ app.current_command # NullCmd)
              => /\ app' = [app EXCEPT !.state = AppStateExecuting]
                 /\ pc' = "send"
                 /\ command' = commands[app.current_command].command
           /\ (pc = "send" /\ pc' # "send")
              => /\ pc' = "delay"
                 /\ app' = app
                 /\ Len(hid') >= 2 /\ hid'[1] = EvSetConfig
           /\ (pc = "delay" /\ pc' # "delay")
              => /\ pc' = "idle"
                 /\ app' = [app EXCEPT !.state = AppStateMainMenu,
                                       !.selected_item = 0]
         ]_vars
    /\ [](app.state = AppStateExecuting => pc # "idle")
    /\ (app.state = AppStateExecuting)
          ~> (app.state = AppStateMainMenu /\ app.selected_item = 0)

\* The invocation has ended at the main menu after a send that timed out.
C2_Witness ==
    /\ last = Step("return")
    /\ app.state = AppStateMainMenu
    /\ app.selected_item = 0
    /\ pc = "idle"
    /\ hid = <<EvSetConfig, EvPoll(500)>>

\* The signal answers false to every call send_command can make.
NeverConnected(sig) == \A call \in 0 .. (MaxPolls + 1) : ~is_connected(sig, call)

\* C3: when the host-connected signal is false at every check, send_command
\* presses and releases no key and returns after exactly 500 polling delays,
\* for every command text.
C3_TimeoutEmitsNothing ==
    (pc = "delay" /\ NeverConnected(usb))
        => /\ KeyEvents(hid) = <<>>
           /\ \E i \in 1 .. Len(hid) : hid[i] = EvPoll(500)
           /\ \A i \in 1 .. Len(hid) : hid[i][1] = "poll" => hid[i] = EvPoll(500)

\* send_command has returned for the example text on a host that never
\* connected.
C3_Witness ==
    /\ pc = "delay"
    /\ NeverConnected(usb)
    /\ command = ExampleText
    /\ last = Step("send")

\* C4: on every return of send_command the HID class has been configured a
\* second time after its activation.
C4_DeactivatedOnEveryReturn ==
    pc = "delay" => Len(SetConfigs(hid)) >= 2

\* The keystroke documented for a character: the key and whether shift is
\* held, or none.
C5_Key(c) ==
    CASE c \in Ch_a .. Ch_z -> <<HID_KEYBOARD_A + (c - Ch_a), FALSE>>
      [] c \in Ch_A .. Ch_Z -> <<HID_KEYBOARD_A + (c - Ch_A), TRUE>>
      [] c \in Ch_1 .. Ch_9 -> <<HID_KEYBOARD_1 + (c - Ch_1), FALSE>>
      [] c = Ch_0 -> <<HID_KEYBOARD_0, FALSE>>
      [] c = Ch_space -> <<HID_KEYBOARD_SPACEBAR, FALSE>>
      [] c = Ch_newline -> <<HID_KEYBOARD_RETURN, FALSE>>
      [] c = Ch_minus -> <<HID_KEYBOARD_MINUS, FALSE>>
      [] c = Ch_quote -> <<HID_KEYBOARD_APOSTROPHE, TRUE>>
      [] OTHER -> <<>>

C5_Stroke(c) ==
    LET k == C5_Key(c)
    IN  IF k = <<>>
        THEN <<>>
        ELSE (IF k[2] THEN <<EvPress(HID_KEYBOARD_LEFT_SHIFT)>> ELSE <<>>)
             \o <<EvPress(k[1]), EvDelay(20), EvRelease(k[1])>>
             \o (IF k[2] THEN <<EvRelease(HID_KEYBOARD_LEFT_SHIFT)>> ELSE <<>>)
             \o <<EvDelay(10)>>
             \o (IF c = Ch_newline THEN <<EvDelay(100)>> ELSE <<>>)

RECURSIVE C5_StrokesOf(_, _, _)
C5_StrokesOf(text, lo, hi) ==
    IF lo > hi THEN <<>>
    ELSE IF lo = hi THEN C5_Stroke(text[lo])
    ELSE LET mid == (lo + hi) \div 2
         IN  C5_StrokesOf(text, lo, mid) \o C5_StrokesOf(text, mid + 1, hi)

C5_Strokes(text) == C5_StrokesOf(text, 1, Len(text))

\* C5: a text that is typed comes out as the in-order sequence of the
\* documented keystrokes of its characters, characters without a documented
\* keystroke producing nothing.
C5_DocumentedKeystrokes ==
    (pc = "delay" /\ Len(hid) > 2)
        => SubSeq(hid, 4, Len(hid) - 1) = C5_Strokes(command)

\* "Ab1 -\"\n" was typed: shift+A, b, 1, space, minus, shift+apostrophe,
\* return.
C5_Witness ==
    /\ pc = "delay"
    /\ command = ExampleText
    /\ KeysPressed(hid) = <<225, 4, 5, 30, 44, 45, 225, 52, 40>>

\* The last index of the list on screen.
C6_LastIndex(a) ==
    IF a.state = AppStateMainMenu
    THEN 3
    ELSE count_menu_items(a.current_category) - 1

C6_OnList(a) == a.state = AppStateMainMenu \/ IsSubmenu(a.state)

\* C6: Up and Down move the cursor by one inside the list on screen and stop
\* at its ends; at any other screen they change nothing; they never change
\* anything but selected_item.
C6_UpDownNeverWrap ==
    [][ /\ PressOf(InputKeyUp)
           => /\ app' = IF C6_OnList(app) /\ app.selected_item # 0
                        THEN [app EXCEPT !.selected_item = @ - 1]
                        ELSE app
              /\ pc' = pc
        /\ PressOf(InputKeyDown)
           => /\ app' = IF C6_OnList(app) /\ app.selected_item # C6_LastIndex(app)
                        THEN [app EXCEPT !.selected_item = @ + 1]
                        ELSE app
              /\ pc' = pc
        /\ ((PressOf(InputKeyUp) \/ PressOf(InputKeyDown)) /\ C6_OnList(app))
           => app'.selected_item \in 0 .. C6_LastIndex(app)
      ]_vars

\* Down was pressed and the cursor is on the last of the four content entries.
C6_Witness ==
    /\ Pressed(InputKeyDown)
    /\ app.state = AppStateContentMenu
    /\ app.selected_item = 3

\* C7: Ok at the main menu on entry 0, 1 or 2 enters the tarot, content or
\* NSFW submenu, sets the category and resets the selection; on entry 3 it
\* changes nothing.
C7_MainMenuConfirm ==
    [][ (PressOf(InputKeyOk) /\ app.state = AppStateMainMenu)
        => /\ app.selected_item = 0
              => app' = [app EXCEPT !.state = AppStateTarotMenu,
                                    !.current_category = MenuCategoryTarot,
                                    !.selected_item = 0]
           /\ app.selected_item = 1
              => app' = [app EXCEPT !.state = AppStateContentMenu,
                                    !.current_category = MenuCategoryContent,
                                    !.selected_item = 0]
           /\ app.selected_item = 2
              => app' = [app EXCEPT !.state = AppStateNSFWMenu,
                                    !.current_category = MenuCategoryNSFW,
                                    !.selected_item = 0]
           /\ app.selected_item = 3 => app' = app
           /\ pc' = "idle"
      ]_vars

\* Ok at the main menu has entered the NSFW submenu.
C7_Witness ==
    /\ Pressed(InputKeyOk)
    /\ app.state = AppStateNSFWMenu
    /\ app.current_category = MenuCategoryNSFW
    /\ app.selected_item = 0

\* C8: Ok at a category submenu stages get_menu_item(category, selection)
\* and shows the confirm screen when the entry is found, and changes nothing
\* when it is not.
C8_SubmenuConfirm ==
    [][ (PressOf(InputKeyOk) /\ IsSubmenu(app.state))
        => LET cmd == get_menu_item(app.current_category, app.selected_item)
           IN  /\ cmd # NullCmd
                  => app' = [app EXCEPT !.current_command = cmd,
                                        !.state = AppStateConfirm]
               /\ cmd = NullCmd => app' = app
               /\ pc' = "idle"
      ]_vars

\* Ok was pressed at a submenu whose selection names no entry, and the
\* submenu is still on screen.
C8_Witness ==
    /\ Pressed(InputKeyOk)
    /\ IsSubmenu(app.state)
    /\ get_menu_item(app.current_category, app.selected_item) = NullCmd

\* The submenu of a category, tarot when the category has none.
C9_Submenu(category) ==
    IF category = MenuCategoryContent THEN AppStateContentMenu
    ELSE IF category = MenuCategoryNSFW THEN AppStateNSFWMenu
    ELSE AppStateTarotMenu

\* C9: the confirm screen is entered from the submenu of the current
\* category, the category stays while it is shown, and Back returns to that
\* submenu, changing nothing else and sending no key.
C9_BackAtConfirm ==
    [][ /\ (app'.state = AppStateConfirm /\ app.state # AppStateConfirm)
           => /\ IsSubmenu(app.state)
              /\ app.state = C9_Submenu(app'.current_category)
        /\ (app.state = AppStateConfirm /\ app'.state = AppStateConfirm)
           => app'.current_category = app.current_category
        /\ (PressOf(InputKeyBack) /\ app.state = AppStateConfirm)
           => /\ app' = [app EXCEPT !.state = C9_Submenu(app.current_category)]
              /\ KeyEvents(hid') = <<>>
              /\ pc' = "idle"
      ]_vars

\* Back at the confirm screen has returned to the content submenu.
C9_Witness ==
    /\ Pressed(InputKeyBack)
    /\ app.state = AppStateContentMenu
    /\ app.current_category = MenuCategoryContent
    /\ app.current_command # NullCmd

\* C10: entering a submenu from main menu entry 0, 1 or 2, moving the cursor
\* there and pressing Back ends at the main menu with selection 0.
C10_RoundTrip ==
    [][ /\ (PressOf(InputKeyOk) /\ app.state = AppStateMainMenu
               /\ app.selected_item \in 0 .. 2)
           => IsSubmenu(app'.state)
        /\ ((PressOf(InputKeyUp) \/ PressOf(InputKeyDown)) /\ IsSubmenu(app.state))
           => app'.state = app.state
        /\ (PressOf(InputKeyBack) /\ IsSubmenu(app.state))
           => /\ app'.state = AppStateMainMenu
              /\ app'.selected_item = 0
      ]_vars

\* Back has left the NSFW submenu, entered from main menu entry 2, and the
\* selection is 0.
C10_Witness ==
    /\ Pressed(InputKeyBack)
    /\ app.state = AppStateMainMenu
    /\ app.running
    /\ app.current_category = MenuCategoryNSFW
    /\ app.selected_item = 0

\* C11: running is cleared by Back at the splash screen or the main menu and
\* by nothing else, that Back changes nothing else, running is never set
\* again, and the loop then ends and tears the application down.
C11_RunningClearedByBack ==
    /\ [][ /\ (app.running /\ ~app'.running)
              => /\ PressOf(InputKeyBack)
                 /\ app.state \in {AppStateSplash, AppStateMainMenu}
           /\ (PressOf(InputKeyBack)
                  /\ app.state \in {AppStateSplash, AppStateMainMenu})
              => app' = [app EXCEPT !.running = FALSE]
           /\ ~app.running => ~app'.running
           /\ (loop = "running" /\ loop' = "done") => ~app.running
           /\ loop = "done" => UNCHANGED vars
         ]_vars
    /\ (~app.running) ~> (loop = "done")

\* Back at the main menu has cleared running and the loop has torn the
\* application down.
C11_Witness ==
    /\ loop = "done"
    /\ ~app.running
    /\ app.state = AppStateMainMenu
    /\ last = Step("teardown")

\* C12: the splash timer counts the loop iterations taken on the splash
\* screen and nothing else; an iteration on the splash screen keeps the
\* splash screen below 300 and shows the main menu with selection 0 at 300;
\* an iteration on any other screen changes nothing, and the splash screen is
\* never entered again.
C12_SplashAutoAdvance ==
    /\ [][ /\ app'.splash_timer # app.splash_timer
              => /\ last' = Step("tick")
                 /\ app.state = AppStateSplash
                 /\ app'.splash_timer = app.splash_timer + 1
           /\ (last' = Step("tick") /\ app.state = AppStateSplash)
              => app' = IF app.splash_timer + 1 < 300
                        THEN [app EXCEPT !.splash_timer = @ + 1]
                        ELSE [app EXCEPT !.splash_timer = 300,
                                         !.state = AppStateMainMenu,
                                         !.selected_item = 0]
           /\ (last' = Step("tick") /\ app.state # AppStateSplash)
              => app' = app
           /\ app.state # AppStateSplash => app'.state # AppStateSplash
         ]_vars
    /\ [](app.state = AppStateSplash => app.splash_timer < 300)

\* The 300th iteration on the splash screen has shown the main menu.
C12_Witness ==
    /\ last = Step("tick")
    /\ app.splash_timer = 300
    /\ app.state = AppStateMainMenu
    /\ app.selected_item = 0
    /\ app.running

\* The fields of CelesteApp the menu state machine consists of.
MenuFields(a) ==
    <<a.state, a.selected_item, a.current_category, a.current_command, a.running>>

\* C13 as stated: no loop iteration and no render step changes state,
\* selected_item, current_category, current_command or running.
C13_OnlyInputWrites ==
    [][ (last' = Step("tick") \/ last' = Step("render"))
        => MenuFields(app') = MenuFields(app) ]_vars

\* C13 as amended: no render step changes the CelesteApp; a loop iteration
\* never changes current_category, current_command or running, and changes
\* state and selected_item only when it is the 300th on the splash screen
\* (to the main menu, selection 0); every other change of these fields is
\* made by the input callback.
C13_LoopWritesOnlyAutoAdvance ==
    [][ /\ last' = Step("render") => app' = app
        /\ last' = Step("tick")
           => /\ app'.current_category = app.current_category
              /\ app'.current_command = app.current_command
              /\ app'.running = app.running
              /\ (app'.state # app.state \/ app'.selected_item # app.selected_item)
                 => /\ app.state = AppStateSplash
                    /\ app.splash_timer + 1 = 300
                    /\ app'.state = AppStateMainMenu
                    /\ app'.selected_item = 0
        /\ (MenuFields(app') # MenuFields(app) /\ last' # Step("tick"))
           => (last'.op = "input" \/ last' = Step("return"))
      ]_vars

\* The loop has left the splash screen by itself and the main menu was drawn.
C13_Witness ==
    /\ last = Step("render")
    /\ app.state = AppStateMainMenu
    /\ app.splash_timer = 300
    /\ canvas = render_main_menu(app)

\* C16: a submenu drawn with the cursor on entry s shows at most four
\* consecutive entries, starting at 0 when s < 4 and at s - 3 otherwise,
\* with entry s among them, marked and alone marked, and last when s >= 4.
C16_SubmenuViewport ==
    (last = Step("render") /\ IsSubmenu(app.state))
        => LET s == app.selected_item
               rows == canvas.rows
               start == IF s < 4 THEN 0 ELSE s - 3
           IN  /\ Len(rows) \in 1 .. 4
               /\ \A k \in 1 .. Len(rows) :
                     /\ rows[k].index = start + (k - 1)
                     /\ rows[k].marked <=> (rows[k].index = s)
                     /\ rows[k].text =
                           commands[get_menu_item(app.current_category,
                                                  rows[k].index)].name
               /\ \E k \in 1 .. Len(rows) : rows[k].index = s
               /\ s >= 4 => rows[Len(rows)].index = s

\* The tarot submenu was drawn with the cursor on its fifth entry: entries
\* 1..4 are shown.
C16_Witness ==
    /\ last = Step("render")
    /\ app.state = AppStateTarotMenu
    /\ app.selected_item = 4
    /\ Len(canvas.rows) = 4
    /\ canvas.rows[1].index = 1
    /\ canvas.rows[4].marked

C15_Entries == {k \in 1 .. Len(commands) : commands[k].name # NULL}
C15_Of(category) == {k \in C15_Entries : commands[k].category = category}
C15_Nth(category, i) ==
    CHOOSE k \in C15_Of(category) :
        Cardinality({j \in C15_Of(category) : j < k}) = i

\* C15: for the category C and the selection i of every CelesteApp,
\* count_menu_items(C) is the number of catalog entries of category C and
\* get_menu_item(C, i) is the i-th of them in declaration order when
\* i < count_menu_items(C) and NULL otherwise; the entry Ok stages at a
\* submenu is that one.
C15_CatalogLookup ==
    /\ LET category == app.current_category
           i == app.selected_item
       IN  /\ count_menu_items(category) = Cardinality(C15_Of(category))
           /\ get_menu_item(category, i) =
                 IF i < Cardinality(C15_Of(category))
                 THEN C15_Nth(category, i)
                 ELSE NullCmd
    /\ (Pressed(InputKeyOk) /\ app.state = AppStateConfirm
            /\ app.current_command # NullCmd)
       => /\ app.selected_item < Cardinality(C15_Of(app.current_category))
          /\ app.current_command
                = C15_Nth(app.current_category, app.selected_item)

\* Ok at the content submenu on its fourth entry has staged the ninth
\* catalog entry.
C15_Witness ==
    /\ Pressed(InputKeyOk)
    /\ app.state = AppStateConfirm
    /\ app.current_category = MenuCategoryContent
    /\ app.selected_item = 3
    /\ app.current_command = 9

\* C17: an input event that is not a press, of any key and on any screen,
\* changes nothing of the CelesteApp and starts no send.
C17_OnlyPressActs ==
    [][ (last'.op = "input" /\ last'.type # InputTypePress)
        => /\ app' = app
           /\ pc' = "idle"
           /\ command' = <<>>
           /\ hid' = <<>>
      ]_vars

\* The release of Ok was handled at the confirm screen with a command
\* staged, and nothing was sent.
C17_Witness ==
    /\ last = InputStep([key |-> InputKeyOk, type |-> InputTypeRelease])
    /\ app.state = AppStateConfirm
    /\ app.current_command # NullCmd
    /\ pc = "idle"
    /\ hid = <<>>

\* C18: in the record of one send_command the HID class is configured
\* before the wait loop; a key is pressed only after a call has seen the host
\* connected and the settle delay was taken; a key pressed is released
\* before the next key is pressed; shift goes down before its key and up
\* after the key's release; nothing is left pressed at the return.
C18_HidEventOrder ==
    pc = "delay"
    => LET ke == KeyEvents(hid)
           n == Len(ke)
           shift == 225
       IN  /\ hid[1] = EvSetConfig
           /\ hid[2][1] = "poll"
           /\ \A i \in 1 .. Len(hid) :
                 hid[i][1] = "press"
                 => /\ i > 3
                    /\ hid[3] = EvDelay(500)
                    /\ \E call \in 0 .. (hid[2][2] + 1) : is_connected(usb, call)
           /\ \A j \in 1 .. n :
                 /\ (ke[j][1] = "press" /\ ke[j][2] # shift)
                    => (j < n /\ ke[j + 1] = EvRelease(ke[j][2]))
                 /\ (ke[j][1] = "release" /\ ke[j][2] # shift)
                    => (j > 1 /\ ke[j - 1] = EvPress(ke[j][2]))
                 /\ ke[j] = EvPress(shift)
                    => /\ j + 3 <= n
                       /\ ke[j + 1][1] = "press" /\ ke[j + 1][2] # shift
                       /\ ke[j + 3] = EvRelease(shift)
                 /\ ke[j] = EvRelease(shift)
                    => (j > 3 /\ ke[j - 3] = EvPress(shift))
           /\ \A j \in 1 .. n :
                 ke[j][1] = "press"
                 => \E r \in (j + 1) .. n : ke[r] = EvRelease(ke[j][2])

\* "Ab1 -\"\n" was typed: seven keys and two uses of shift, each pressed
\* and released.
C18_Witness ==
    /\ pc = "delay"
    /\ command = ExampleText
    /\ Len(KeyEvents(hid)) = 18
    /\ KeyEvents(hid)[1] = EvPress(225)
    /\ KeyEvents(hid)[18] = EvRelease(40)

\* The presses of a HID record other than those of shift.
C19_KeyPresses(h) ==
    SelectSeq(h, LAMBDA e : e[1] = "press" /\ e[2] # 225)

\* C19: a catalog command sent to a connected host is typed completely: one
\* keystroke per character of its text, the return key last.
C19_CatalogTypedCompletely ==
    (pc = "delay" /\ Len(hid) > 2)
        => /\ Len(C19_KeyPresses(hid)) = Len(command)
           /\ C19_KeyPresses(hid)[Len(command)] = EvPress(40)

\* The submenu of a category.
C20_Submenu(category) ==
    CASE category = MenuCategoryTarot -> AppStateTarotMenu
      [] category = MenuCategoryContent -> AppStateContentMenu
      [] category = MenuCategoryNSFW -> AppStateNSFWMenu
      [] OTHER -> NULL

\* C20: on a submenu screen the category is the one of that submenu and the
\* selection names an entry; on the confirm and the Executing screen a
\* command is staged, it belongs to the current category and it is the entry
\* the selection names; the text handed to send_command is that entry's.
C20_ScreenCategoryCommand ==
    /\ IsSubmenu(app.state)
       => /\ app.state = C20_Submenu(app.current_category)
          /\ get_menu_item(app.current_category, app.selected_item) # NullCmd
    /\ (app.state = AppStateConfirm \/ app.state = AppStateExecuting)
       => /\ app.current_command # NullCmd
          /\ commands[app.current_command].category = app.current_category
          /\ app.current_command
                = get_menu_item(app.current_category, app.selected_item)
    /\ pc # "idle"
       => /\ app.state = AppStateExecuting
          /\ command = commands[get_menu_item(app.current_category,
                                              app.selected_item)].command

\* The fourth content entry is being sent: the cursor is on it, it is staged
\* and its text is the argument of send_command.
C20_Witness ==
    /\ pc = "send"
    /\ app.state = AppStateExecuting
    /\ app.current_category = MenuCategoryContent
    /\ app.selected_item = 3
    /\ app.current_command = 9
    /\ command = Command9
====
